---- MODULE Spec2Model ----
(***************************************************************************)
(* State-machine model of the Snek libretro core (src/snake_core.c).       *)
(*                                                                         *)
(* The globals of the core are the variables.  One frame (retro_run), the  *)
(* host reset (retro_reset) and the two save-state entry points            *)
(* (retro_serialize, retro_unserialize) are the actions.  The helpers of   *)
(* the core (game_reset, random_free_cell, spawn_food, spawn_item,         *)
(* spawn_particles, update_particles, spawn_obstacles, update_snake,       *)
(* handle_input) are operators from a record of the globals to the set of  *)
(* records the call can leave, one per outcome of its rand() draws.        *)
(*                                                                         *)
(* The grid, the durations, the pool size and the move interval are scaled *)
(* down so that the reachable states can be enumerated; every formula is   *)
(* written in terms of the named constants, never of their values.         *)
(***************************************************************************)
EXTENDS Integers, Sequences, FiniteSets, TLC

(* ---------------- configuration constants (scaled) --------------------- *)

\* #define GRID_W 40, #define GRID_H 30: scaled play field.  The interior
\* is 4 x 2 cells, the initial snake lies in its lower row.
GRID_W == 6
GRID_H == 4
\* #define MAX_SNAKE_LENGTH (GRID_W * GRID_H)
MAX_SNAKE_LENGTH == GRID_W * GRID_H
\* #define MAX_PARTICLES 128: scaled pool.
MAX_PARTICLES == 1
\* #define PHASE_DURATION (60 * 5), SPEED_DURATION (60 * 5): scaled, in frames.
PHASE_DURATION == 4
SPEED_DURATION == 4
\* #define BASE_MOVE_INTERVAL 8: scaled.
BASE_MOVE_INTERVAL == 2
\* score += 10
SCORE_INCREMENT == 10
\* int num_obstacles = GRID_W * GRID_H / 100: the divisor, scaled.
OBSTACLE_DIVISOR == 20
\* particles[i].lifetime = 30 + rand() % 30: base and span, scaled.
PARTICLE_LIFE_BASE == 2
PARTICLE_LIFE_SPAN == 1
\* unsigned long frame_count wraps at ULONG_MAX + 1: scaled modulus.
ULONG_MODULUS == 2
\* The score is an int that grows without limit; frames that would take it
\* past MaxScore are not explored.
MaxScore == 20
\* The host runs at most MaxAge frames on a save-state buffer before it
\* saves again.
MaxAge == 3

\* game_state_t
STATE_TITLE == 0
STATE_PLAY == 1
STATE_PAUSE == 2
STATE_GAMEOVER == 3
\* direction_t
DIR_UP == 0
DIR_DOWN == 1
DIR_LEFT == 2
DIR_RIGHT == 3
\* item_type_t
ITEM_NONE == 0
ITEM_PHASE == 1
ITEM_SPEED == 2

(* ---------------- state ------------------------------------------------ *)

VARIABLES
    snake_x, snake_y,       \* cells 0..snake_length-1 of the arrays, head first
    snake_length,
    snake_dir, pending_dir,
    food_x, food_y,
    item_type, item_x, item_y,
    phase_timer, speed_timer,
    particles,              \* pool: slot -> [active, lifetime]
    obstacle,               \* the cells (x, y) with obstacle[x][y] != 0
    obstacle_count,
    score, highscore,
    state, move_counter, frame_count,
    prev_start, prev_select,\* the function-local statics of handle_input
    blob,                   \* the host's save-state buffer: its size, its fields
    saved,                  \* the globals as they were when blob was written
    age,                    \* frames of a save-state session run so far
    call                    \* the last save-state or reset call and its result

core == << snake_x, snake_y, snake_length, snake_dir, pending_dir, food_x,
           food_y, item_type, item_x, item_y, phase_timer, speed_timer,
           particles, obstacle, obstacle_count, score, highscore, state,
           move_counter, frame_count, prev_start, prev_select >>

host == << blob, saved, age, call >>

vars == << core, host >>

\* The globals as one record, the argument and result of the helpers.
Globals ==
    [ snake_x |-> snake_x, snake_y |-> snake_y, snake_length |-> snake_length,
      snake_dir |-> snake_dir, pending_dir |-> pending_dir,
      food_x |-> food_x, food_y |-> food_y,
      item_type |-> item_type, item_x |-> item_x, item_y |-> item_y,
      phase_timer |-> phase_timer, speed_timer |-> speed_timer,
      particles |-> particles, obstacle |-> obstacle,
      obstacle_count |-> obstacle_count,
      score |-> score, highscore |-> highscore,
      state |-> state, move_counter |-> move_counter,
      frame_count |-> frame_count,
      prev_start |-> prev_start, prev_select |-> prev_select ]

\* The program is left in the globals g.
Becomes(g) ==
    /\ snake_x' = g.snake_x /\ snake_y' = g.snake_y
    /\ snake_length' = g.snake_length
    /\ snake_dir' = g.snake_dir /\ pending_dir' = g.pending_dir
    /\ food_x' = g.food_x /\ food_y' = g.food_y
    /\ item_type' = g.item_type /\ item_x' = g.item_x /\ item_y' = g.item_y
    /\ phase_timer' = g.phase_timer /\ speed_timer' = g.speed_timer
    /\ particles' = g.particles /\ obstacle' = g.obstacle
    /\ obstacle_count' = g.obstacle_count
    /\ score' = g.score /\ highscore' = g.highscore
    /\ state' = g.state /\ move_counter' = g.move_counter
    /\ frame_count' = g.frame_count
    /\ prev_start' = g.prev_start /\ prev_select' = g.prev_select

(* ---------------- helpers ---------------------------------------------- *)

Cells == (0 .. GRID_W - 1) \X (0 .. GRID_H - 1)

\* The outcomes of the draws (rand() % GRID_W, rand() % GRID_H) that are
\* explored: a cell of the left edge, the 2 x 2 block of the initial head and
\* the cell of the initial tail.
Draws ==
    ({0, GRID_W \div 2, GRID_W \div 2 + 1} \X {GRID_H \div 2 - 1, GRID_H \div 2})
        \cup {<< GRID_W \div 2 - 2, GRID_H \div 2 >>}

\* The cell held by snake index i (0-based, as in the source).
SnakeCell(g, i) == << g.snake_x[i + 1], g.snake_y[i + 1] >>

SnakeCells(g) == { SnakeCell(g, i) : i \in 0 .. g.snake_length - 1 }

\* The reverse of a direction, as spelled out in handle_input's guards.
Opposite(d) ==
    CASE d = DIR_UP -> DIR_DOWN
      [] d = DIR_DOWN -> DIR_UP
      [] d = DIR_LEFT -> DIR_RIGHT
      [] d = DIR_RIGHT -> DIR_LEFT

\* A loop test without the item check.
IsFree_IgnoresItem(g, c) ==
    /\ \A i \in 0 .. g.snake_length - 1 : SnakeCell(g, i) # c
    /\ c \notin g.obstacle

\* The test of random_free_cell's loop: cell c collides with no snake index,
\* no obstacle and not the active item.
IsFree(g, c) ==
    /\ \A i \in 0 .. g.snake_length - 1 : SnakeCell(g, i) # c
    /\ c \notin g.obstacle
    /\ ~ (g.item_type # ITEM_NONE /\ g.item_x = c[1] /\ g.item_y = c[2])

\* random_free_cell: the cells its loop can return, i.e. the draws
\* (rand() % GRID_W, rand() % GRID_H) that collide with no snake index, no
\* obstacle and not the active item.  The draws explored are those of Draws.
random_free_cell(g) == { c \in Draws : IsFree(g, c) }

\* The first free cell of the grid in row order, if there is one.
FirstFree(g) ==
    LET free == { c \in Cells : IsFree(g, c) }
    IN  IF free = {}
        THEN {}
        ELSE { CHOOSE c \in free :
                 \A d \in free : c[2] < d[2] \/ (c[2] = d[2] /\ c[1] <= d[1]) }

\* spawn_food: random_free_cell(&food_x, &food_y).  The loop draws until a
\* cell is free, so a fruit is placed whenever the grid has a free cell:
\* when none of the explored draws is free, the first free cell stands for
\* the draws outside Draws.  With no free cell at all the loop does not
\* return.
spawn_food(g) ==
    LET cells == IF random_free_cell(g) # {}
                 THEN random_free_cell(g)
                 ELSE FirstFree(g)
    IN  { [g EXCEPT !.food_x = c[1], !.food_y = c[2]] : c \in cells }

\* A spawn_item that does not look at the active item.
spawn_item_Always(g) ==
    {g} \cup
    UNION { LET t == [g EXCEPT !.item_type = ty]
            IN  { [t EXCEPT !.item_x = c[1], !.item_y = c[2]] :
                    c \in random_free_cell(t) } :
            ty \in {ITEM_PHASE, ITEM_SPEED} }

\* spawn_item: nothing when an item is active or the probability gate
\* fails; otherwise the type is set first and the cell drawn afterwards.
spawn_item(g) ==
    IF g.item_type # ITEM_NONE
    THEN {g}
    ELSE {g} \cup
         UNION { LET t == [g EXCEPT !.item_type = ty]
                 IN  { [t EXCEPT !.item_x = c[1], !.item_y = c[2]] :
                         c \in random_free_cell(t) } :
                 ty \in {ITEM_PHASE, ITEM_SPEED} }

\* The lifetimes spawn_particles can draw.
ParticleLifetimes ==
    PARTICLE_LIFE_BASE .. PARTICLE_LIFE_BASE + PARTICLE_LIFE_SPAN - 1

\* spawn_particles from slot i on: every inactive slot met is activated with
\* a drawn lifetime, and after each activation a coin flip ends the loop.
\* Position, velocity and colour are floats read by the renderer only.
RECURSIVE SpawnFrom(_, _)
SpawnFrom(ps, i) ==
    IF i > MAX_PARTICLES
    THEN {ps}
    ELSE IF ps[i].active
         THEN SpawnFrom(ps, i + 1)
         ELSE UNION { LET q == [ps EXCEPT ![i] = [active |-> TRUE, lifetime |-> l]]
                      IN  {q} \cup SpawnFrom(q, i + 1) :
                      l \in ParticleLifetimes }

\* A spawn_particles that starts with the oldest slot whatever its state.
spawn_particles_Evicts(g) ==
    { [g EXCEPT !.particles = ps] :
        ps \in UNION { SpawnFrom([g.particles EXCEPT
                                    ![1] = [active |-> FALSE, lifetime |-> l]], 1) :
                       l \in ParticleLifetimes } }

spawn_particles(g) ==
    { [g EXCEPT !.particles = ps] : ps \in SpawnFrom(g.particles, 1) }

\* An update_particles that deactivates only below zero.
update_particles_KeepsAtZero(g) ==
    [g EXCEPT !.particles =
        [i \in 1 .. MAX_PARTICLES |->
            IF g.particles[i].active
            THEN [active |-> g.particles[i].lifetime - 1 >= 0,
                  lifetime |-> g.particles[i].lifetime - 1]
            ELSE g.particles[i]]]

\* update_particles: every active particle ages by one and is deactivated
\* when its lifetime reaches zero.
update_particles(g) ==
    [g EXCEPT !.particles =
        [i \in 1 .. MAX_PARTICLES |->
            IF g.particles[i].active
            THEN [active |-> g.particles[i].lifetime - 1 > 0,
                  lifetime |-> g.particles[i].lifetime - 1]
            ELSE g.particles[i]]]

\* The outer ring set by the first two loops of spawn_obstacles.
Border ==
    { c \in Cells : c[1] = 0 \/ c[1] = GRID_W - 1 \/ c[2] = 0 \/ c[2] = GRID_H - 1 }

num_obstacles == (GRID_W * GRID_H) \div OBSTACLE_DIVISOR

\* The interior loop of spawn_obstacles: n more draws, each resampled while
\* it is the snake's head, the food, the active item or an obstacle.
RECURSIVE PlaceObstacles(_, _)
PlaceObstacles(g, n) ==
    IF n = 0
    THEN {g}
    ELSE UNION { PlaceObstacles([g EXCEPT !.obstacle = @ \cup {c},
                                          !.obstacle_count = @ + 1], n - 1) :
                 c \in { d \in Draws :
                           /\ d # SnakeCell(g, 0)
                           /\ d # << g.food_x, g.food_y >>
                           /\ ~ (g.item_type # ITEM_NONE
                                 /\ d = << g.item_x, g.item_y >>)
                           /\ d \notin g.obstacle } }

\* A spawn_obstacles that counts the four corners of the ring twice.
spawn_obstacles_CornersTwice(g) ==
    PlaceObstacles([g EXCEPT !.obstacle = @ \cup Border,
                             !.obstacle_count = 2 * (GRID_W + GRID_H)],
                   num_obstacles)

\* A spawn_obstacles without the ring.
spawn_obstacles_InteriorOnly(g) ==
    PlaceObstacles([g EXCEPT !.obstacle_count = 0], num_obstacles)

spawn_obstacles(g) ==
    PlaceObstacles([g EXCEPT !.obstacle = @ \cup Border,
                             !.obstacle_count = 2 * (GRID_W + GRID_H) - 4],
                   num_obstacles)

\* A game_reset that leaves the score.
game_reset_KeepsScore(g) ==
    LET hx == GRID_W \div 2
        hy == GRID_H \div 2
        r == [g EXCEPT !.snake_length = 3,
                       !.snake_x = << hx, hx - 1, hx - 2 >>,
                       !.snake_y = << hy, hy, hy >>,
                       !.snake_dir = DIR_RIGHT,
                       !.pending_dir = DIR_RIGHT,
                       !.phase_timer = 0,
                       !.speed_timer = 0,
                       !.item_type = ITEM_NONE,
                       !.move_counter = BASE_MOVE_INTERVAL,
                       !.frame_count = 0,
                       !.particles = [i \in 1 .. MAX_PARTICLES |->
                                        [@[i] EXCEPT !.active = FALSE]],
                       !.obstacle = {},
                       !.obstacle_count = 0]
    IN  UNION { spawn_obstacles(f) : f \in spawn_food(r) }

\* game_reset: the fixed part, then spawn_food() on the cleared grid, then
\* spawn_obstacles().
game_reset(g) ==
    LET hx == GRID_W \div 2
        hy == GRID_H \div 2
        r == [g EXCEPT !.snake_length = 3,
                       !.snake_x = << hx, hx - 1, hx - 2 >>,
                       !.snake_y = << hy, hy, hy >>,
                       !.snake_dir = DIR_RIGHT,
                       !.pending_dir = DIR_RIGHT,
                       !.score = 0,
                       !.phase_timer = 0,
                       !.speed_timer = 0,
                       !.item_type = ITEM_NONE,
                       !.move_counter = BASE_MOVE_INTERVAL,
                       !.frame_count = 0,
                       !.particles = [i \in 1 .. MAX_PARTICLES |->
                                        [@[i] EXCEPT !.active = FALSE]],
                       !.obstacle = {},
                       !.obstacle_count = 0]
    IN  UNION { spawn_obstacles(f) : f \in spawn_food(r) }

\* A check_obstacle_collision that looks only inside the ring.
check_obstacle_collision_InsideRing(g, new_x, new_y) ==
    /\ new_x > 0 /\ new_x < GRID_W - 1 /\ new_y > 0 /\ new_y < GRID_H - 1
    /\ << new_x, new_y >> \in g.obstacle

check_obstacle_collision(g, new_x, new_y) ==
    /\ new_x >= 0 /\ new_x < GRID_W /\ new_y >= 0 /\ new_y < GRID_H
    /\ << new_x, new_y >> \in g.obstacle

(* ---------------- update_snake ----------------------------------------- *)

\* The head stepped one unit in direction d (the switch of update_snake).
StepCell(g, d) ==
    LET x == g.snake_x[1]
        y == g.snake_y[1]
    IN  CASE d = DIR_UP -> << x, y - 1 >>
          [] d = DIR_DOWN -> << x, y + 1 >>
          [] d = DIR_LEFT -> << x - 1, y >>
          [] d = DIR_RIGHT -> << x + 1, y >>

\* A wraparound that re-enters at GRID_W and GRID_H instead of one less.
WrapCell_PastEdge(c) ==
    LET x1 == IF c[1] < 0 THEN GRID_W ELSE c[1]
        x2 == IF x1 >= GRID_W THEN 0 ELSE x1
        y1 == IF c[2] < 0 THEN GRID_H ELSE c[2]
        y2 == IF y1 >= GRID_H THEN 0 ELSE y1
    IN  << x2, y2 >>

\* The wraparound of the phasing branch, each test on the value the
\* previous one left.
WrapCell(c) ==
    LET x1 == IF c[1] < 0 THEN GRID_W - 1 ELSE c[1]
        x2 == IF x1 >= GRID_W THEN 0 ELSE x1
        y1 == IF c[2] < 0 THEN GRID_H - 1 ELSE c[2]
        y2 == IF y1 >= GRID_H THEN 0 ELSE y1
    IN  << x2, y2 >>

OutOfGrid(c) == c[1] < 0 \/ c[1] >= GRID_W \/ c[2] < 0 \/ c[2] >= GRID_H

\* The candidate head cell of a tick: the step in the pending direction,
\* wrapped when phasing.
Candidate(g) ==
    IF g.phase_timer > 0
    THEN WrapCell(StepCell(g, g.pending_dir))
    ELSE StepCell(g, g.pending_dir)

\* A self-collision loop that stops before the last index.
SelfCollision_SkipsTail(g, c) ==
    /\ g.phase_timer <= 0
    /\ \E i \in 0 .. g.snake_length - 2 : SnakeCell(g, i) = c

\* The self-collision loop: indices 0 .. snake_length-1, skipped when phasing.
SelfCollision(g, c) ==
    /\ g.phase_timer <= 0
    /\ \E i \in 0 .. g.snake_length - 1 : SnakeCell(g, i) = c

\* A tick whose obstacle check is skipped while phasing.
Fatal_PhasingIgnoresObstacles(g) ==
    LET c == Candidate(g)
    IN  \/ (g.phase_timer <= 0 /\ OutOfGrid(c))
        \/ SelfCollision(g, c)
        \/ (g.phase_timer <= 0 /\ check_obstacle_collision(g, c[1], c[2]))

\* The tick ends the game: wall (not phasing), self or obstacle collision.
Fatal(g) ==
    LET c == Candidate(g)
    IN  \/ (g.phase_timer <= 0 /\ OutOfGrid(c))
        \/ SelfCollision(g, c)
        \/ check_obstacle_collision(g, c[1], c[2])

\* A shift whose loop stops at index 2: index 1 keeps its cell.
MoveBody_SkipsNeck(g, c) ==
    [g EXCEPT !.snake_x = << c[1], @[2] >> \o SubSeq(@, 2, g.snake_length - 1),
              !.snake_y = << c[2], @[2] >> \o SubSeq(@, 2, g.snake_length - 1)]

\* The body shifted one index toward the tail and c stored as the head.
MoveBody(g, c) ==
    [g EXCEPT !.snake_x = << c[1] >> \o SubSeq(@, 1, g.snake_length - 1),
              !.snake_y = << c[2] >> \o SubSeq(@, 1, g.snake_length - 1)]

\* A growth without the test against MAX_SNAKE_LENGTH.
Grow_Uncapped(g) ==
    [g EXCEPT !.snake_length = @ + 1,
              !.snake_x = Append(@, @[g.snake_length]),
              !.snake_y = Append(@, @[g.snake_length])]

\* A growth that copies the head cell into the new index.
Grow_CopiesHead(g) ==
    IF g.snake_length < MAX_SNAKE_LENGTH
    THEN [g EXCEPT !.snake_length = @ + 1,
                   !.snake_x = Append(@, @[1]),
                   !.snake_y = Append(@, @[1])]
    ELSE g

\* Growth: one more index holding a copy of the last cell, unless at the cap.
Grow(g) ==
    IF g.snake_length < MAX_SNAKE_LENGTH
    THEN [g EXCEPT !.snake_length = @ + 1,
                   !.snake_x = Append(@, @[g.snake_length]),
                   !.snake_y = Append(@, @[g.snake_length])]
    ELSE g

\* A fruit branch that never raises the high score.
EatFood_KeepsHighscore(g, c) ==
    IF c = << g.food_x, g.food_y >>
    THEN LET a == Grow(g)
             b == [a EXCEPT !.score = @ + SCORE_INCREMENT]
         IN  UNION { UNION { spawn_item(f) : f \in spawn_food(p) } :
                     p \in spawn_particles(b) }
    ELSE {g}

\* A fruit branch that leaves the fruit where it was.
EatFood_KeepsFood(g, c) ==
    IF c = << g.food_x, g.food_y >>
    THEN LET a == Grow(g)
             b == [a EXCEPT !.score = @ + SCORE_INCREMENT]
             h == IF b.score > b.highscore
                  THEN [b EXCEPT !.highscore = b.score]
                  ELSE b
         IN  UNION { spawn_item(p) : p \in spawn_particles(h) }
    ELSE {g}

\* The fruit branch: growth, score, high score, particles, spawn_food(),
\* spawn_item(), in that order.
EatFood(g, c) ==
    IF c = << g.food_x, g.food_y >>
    THEN LET a == Grow(g)
             b == [a EXCEPT !.score = @ + SCORE_INCREMENT]
             h == IF b.score > b.highscore
                  THEN [b EXCEPT !.highscore = b.score]
                  ELSE b
         IN  UNION { UNION { spawn_item(f) : f \in spawn_food(p) } :
                     p \in spawn_particles(h) }
    ELSE {g}

\* An item branch that starts the other variant's timer.
TakeItem_SwapsTimers(g, c) ==
    IF g.item_type # ITEM_NONE /\ c = << g.item_x, g.item_y >>
    THEN LET t == IF g.item_type = ITEM_PHASE
                  THEN [g EXCEPT !.speed_timer = SPEED_DURATION]
                  ELSE IF g.item_type = ITEM_SPEED
                       THEN [g EXCEPT !.phase_timer = PHASE_DURATION]
                       ELSE g
         IN  { [p EXCEPT !.item_type = ITEM_NONE] : p \in spawn_particles(t) }
    ELSE {g}

\* The item branch, evaluated after the fruit branch on the state it left.
TakeItem(g, c) ==
    IF g.item_type # ITEM_NONE /\ c = << g.item_x, g.item_y >>
    THEN LET t == IF g.item_type = ITEM_PHASE
                  THEN [g EXCEPT !.phase_timer = PHASE_DURATION]
                  ELSE IF g.item_type = ITEM_SPEED
                       THEN [g EXCEPT !.speed_timer = SPEED_DURATION]
                       ELSE g
         IN  { [p EXCEPT !.item_type = ITEM_NONE] : p \in spawn_particles(t) }
    ELSE {g}

\* An update_snake that moves the body before it ends the game.
update_snake_MovesThenDies(g) ==
    LET c == Candidate(g)
        d == [g EXCEPT !.snake_dir = g.pending_dir]
    IN  IF Fatal(g)
        THEN { [MoveBody(d, c) EXCEPT !.state = STATE_GAMEOVER] }
        ELSE UNION { TakeItem(e, c) : e \in EatFood(MoveBody(d, c), c) }

update_snake(g) ==
    LET c == Candidate(g)
        d == [g EXCEPT !.snake_dir = g.pending_dir]
    IN  IF Fatal(g)
        THEN { [d EXCEPT !.state = STATE_GAMEOVER] }
        ELSE UNION { TakeItem(e, c) : e \in EatFood(MoveBody(d, c), c) }

(* ---------------- handle_input ----------------------------------------- *)

\* The button levels of one frame.
Inputs ==
    [ up : BOOLEAN, down : BOOLEAN, left : BOOLEAN, right : BOOLEAN,
      start : BOOLEAN, select : BOOLEAN ]

Released ==
    [ up |-> FALSE, down |-> FALSE, left |-> FALSE, right |-> FALSE,
      start |-> FALSE, select |-> FALSE ]

\* The button levels explored while playing: nothing, one direction, Start,
\* and two pairs of directions that reach the later arms of the chain.
PlayInputs ==
    { Released,
      [Released EXCEPT !.up = TRUE], [Released EXCEPT !.down = TRUE],
      [Released EXCEPT !.left = TRUE], [Released EXCEPT !.right = TRUE],
      [Released EXCEPT !.start = TRUE],
      [Released EXCEPT !.up = TRUE, !.left = TRUE],
      [Released EXCEPT !.down = TRUE, !.right = TRUE] }

\* A Start handling that acts on the level of the button, not on its edge.
OnStart_LevelTriggered(g, in) ==
    IF in.start
    THEN CASE g.state = STATE_TITLE ->
                game_reset([g EXCEPT !.state = STATE_PLAY])
           [] g.state = STATE_PLAY -> { [g EXCEPT !.state = STATE_PAUSE] }
           [] g.state = STATE_PAUSE -> { [g EXCEPT !.state = STATE_PLAY] }
           [] g.state = STATE_GAMEOVER ->
                game_reset([g EXCEPT !.state = STATE_PLAY])
           [] OTHER -> {g}
    ELSE {g}

\* A Start edge that leads from GameOver back to the title screen.
OnStart_GameOverToTitle(g, in) ==
    IF in.start /\ ~ g.prev_start
    THEN CASE g.state = STATE_TITLE ->
                game_reset([g EXCEPT !.state = STATE_PLAY])
           [] g.state = STATE_PLAY -> { [g EXCEPT !.state = STATE_PAUSE] }
           [] g.state = STATE_PAUSE -> { [g EXCEPT !.state = STATE_PLAY] }
           [] g.state = STATE_GAMEOVER ->
                game_reset([g EXCEPT !.state = STATE_TITLE])
           [] OTHER -> {g}
    ELSE {g}

\* The Start edge: Title and GameOver reset into Play, Play and Pause toggle.
OnStart(g, in) ==
    IF in.start /\ ~ g.prev_start
    THEN CASE g.state = STATE_TITLE ->
                game_reset([g EXCEPT !.state = STATE_PLAY])
           [] g.state = STATE_PLAY -> { [g EXCEPT !.state = STATE_PAUSE] }
           [] g.state = STATE_PAUSE -> { [g EXCEPT !.state = STATE_PLAY] }
           [] g.state = STATE_GAMEOVER ->
                game_reset([g EXCEPT !.state = STATE_PLAY])
           [] OTHER -> {g}
    ELSE {g}

\* A Select edge that clears the high score in every state.
OnSelect_AnyState(g, in) ==
    IF in.select /\ ~ g.prev_select
    THEN [g EXCEPT !.highscore = 0]
    ELSE g

\* The Select edge, tested on the state the Start handling left.
OnSelect(g, in) ==
    IF in.select /\ ~ g.prev_select /\ g.state = STATE_TITLE
    THEN [g EXCEPT !.highscore = 0]
    ELSE g

\* A chain that runs in every state.
OnDirection_AnyState(g, in) ==
    IF in.up /\ g.snake_dir # DIR_DOWN /\ g.pending_dir # DIR_DOWN
    THEN [g EXCEPT !.pending_dir = DIR_UP]
    ELSE IF in.down /\ g.snake_dir # DIR_UP /\ g.pending_dir # DIR_UP
    THEN [g EXCEPT !.pending_dir = DIR_DOWN]
    ELSE IF in.left /\ g.snake_dir # DIR_RIGHT /\ g.pending_dir # DIR_RIGHT
    THEN [g EXCEPT !.pending_dir = DIR_LEFT]
    ELSE IF in.right /\ g.snake_dir # DIR_LEFT /\ g.pending_dir # DIR_LEFT
    THEN [g EXCEPT !.pending_dir = DIR_RIGHT]
    ELSE g

\* A chain that tests the pending direction only.
OnDirection_PendingOnly(g, in) ==
    IF g.state # STATE_PLAY
    THEN g
    ELSE IF in.up /\ g.pending_dir # DIR_DOWN
    THEN [g EXCEPT !.pending_dir = DIR_UP]
    ELSE IF in.down /\ g.pending_dir # DIR_UP
    THEN [g EXCEPT !.pending_dir = DIR_DOWN]
    ELSE IF in.left /\ g.pending_dir # DIR_RIGHT
    THEN [g EXCEPT !.pending_dir = DIR_LEFT]
    ELSE IF in.right /\ g.pending_dir # DIR_LEFT
    THEN [g EXCEPT !.pending_dir = DIR_RIGHT]
    ELSE g

\* The else-if chain of the directional buttons.
OnDirection(g, in) ==
    IF g.state # STATE_PLAY
    THEN g
    ELSE IF in.up /\ g.snake_dir # DIR_DOWN /\ g.pending_dir # DIR_DOWN
    THEN [g EXCEPT !.pending_dir = DIR_UP]
    ELSE IF in.down /\ g.snake_dir # DIR_UP /\ g.pending_dir # DIR_UP
    THEN [g EXCEPT !.pending_dir = DIR_DOWN]
    ELSE IF in.left /\ g.snake_dir # DIR_RIGHT /\ g.pending_dir # DIR_RIGHT
    THEN [g EXCEPT !.pending_dir = DIR_LEFT]
    ELSE IF in.right /\ g.snake_dir # DIR_LEFT /\ g.pending_dir # DIR_LEFT
    THEN [g EXCEPT !.pending_dir = DIR_RIGHT]
    ELSE g

handle_input(g, in) ==
    { OnDirection(
        [OnSelect([s EXCEPT !.prev_start = in.start], in)
            EXCEPT !.prev_select = in.select], in) :
      s \in OnStart(g, in) }

(* ---------------- retro_run -------------------------------------------- *)

\* The head of the Play branch: both timers count down, then the move
\* counter does.
Countdown(g) ==
    [g EXCEPT !.phase_timer = IF @ > 0 THEN @ - 1 ELSE @,
              !.speed_timer = IF @ > 0 THEN @ - 1 ELSE @,
              !.move_counter = @ - 1]

\* int interval, read from the speed timer before the tick.
Interval(g) ==
    IF g.speed_timer > 0 THEN BASE_MOVE_INTERVAL \div 2 ELSE BASE_MOVE_INTERVAL

\* A Play branch that counts the timers down after the tick instead of
\* before it.
PlayFrame_CountsAfterTick(g) ==
    LET m == [g EXCEPT !.move_counter = @ - 1]
        after(u) == [u EXCEPT !.phase_timer = IF @ > 0 THEN @ - 1 ELSE @,
                              !.speed_timer = IF @ > 0 THEN @ - 1 ELSE @]
    IN  IF m.move_counter <= 0
        THEN { update_particles(after([u EXCEPT !.move_counter = Interval(m)])) :
               u \in update_snake(m) }
        ELSE { update_particles(after(m)) }

\* A Play branch that counts the timers down only on the frames that tick.
PlayFrame_TimersPerTick(g) ==
    LET m == [g EXCEPT !.move_counter = @ - 1]
        t == Countdown(g)
    IN  IF m.move_counter <= 0
        THEN { update_particles([u EXCEPT !.move_counter = Interval(t)]) :
               u \in update_snake(t) }
        ELSE { update_particles(m) }

\* A Play branch that reads the interval from the speed timer after the tick.
PlayFrame_IntervalAfterTick(g) ==
    LET m == Countdown(g)
    IN  IF m.move_counter <= 0
        THEN { update_particles([u EXCEPT !.move_counter = Interval(u)]) :
               u \in update_snake(m) }
        ELSE { update_particles(m) }

\* The Play branch of retro_run: countdown, tick when it has elapsed,
\* particles.
PlayFrame(g) ==
    LET m == Countdown(g)
    IN  IF m.move_counter <= 0
        THEN { update_particles([u EXCEPT !.move_counter = Interval(m)]) :
               u \in update_snake(m) }
        ELSE { update_particles(m) }

\* A frame that updates the particles in every state.
retro_run_ParticlesEveryFrame(g, in) ==
    { [f EXCEPT !.frame_count = (@ + 1) % ULONG_MODULUS] :
      f \in UNION { IF h.state = STATE_PLAY
                    THEN PlayFrame(h)
                    ELSE {update_particles(h)} :
                    h \in handle_input(g, in) } }

\* One frame.  draw_frame, video_cb and audio_batch_cb write no global.
retro_run(g, in) ==
    { [f EXCEPT !.frame_count = (@ + 1) % ULONG_MODULUS] :
      f \in UNION { IF h.state = STATE_PLAY THEN PlayFrame(h) ELSE {h} :
                    h \in handle_input(g, in) } }

\* The states on which the coming frame can run a tick: the globals after
\* handle_input and the countdown, in Play with the move counter elapsed.
\* handle_input leaves the move counter or, through game_reset, sets it to
\* BASE_MOVE_INTERVAL, so there is none while both are above 1.
TickStates ==
    IF move_counter > 1 /\ BASE_MOVE_INTERVAL > 1
    THEN {}
    ELSE LET hs == UNION { handle_input(Globals, in) : in \in PlayInputs }
         IN  { Countdown(h) :
               h \in { k \in hs : k.state = STATE_PLAY
                                   /\ Countdown(k).move_counter <= 0 } }

(* ---------------- save states ------------------------------------------ *)

\* sizeof(int), sizeof of the three enum types, sizeof(unsigned long) (LP64).
SIZEOF_INT == 4
SIZEOF_ENUM == 4
SIZEOF_ULONG == 8

retro_serialize_size ==
    SIZEOF_INT * (2 * MAX_SNAKE_LENGTH + 5) + SIZEOF_ENUM + SIZEOF_ULONG

\* The memcpy calls of retro_serialize, and of retro_unserialize, in order:
\* the global copied and the number of bytes.
Layout ==
    << [name |-> "snake_x",      size |-> SIZEOF_INT * MAX_SNAKE_LENGTH],
       [name |-> "snake_y",      size |-> SIZEOF_INT * MAX_SNAKE_LENGTH],
       [name |-> "snake_length", size |-> SIZEOF_INT],
       [name |-> "snake_dir",    size |-> SIZEOF_ENUM],
       [name |-> "food_x",       size |-> SIZEOF_INT],
       [name |-> "food_y",       size |-> SIZEOF_INT],
       [name |-> "item_type",    size |-> SIZEOF_ENUM],
       [name |-> "item_x",       size |-> SIZEOF_INT],
       [name |-> "item_y",       size |-> SIZEOF_INT],
       [name |-> "phase_timer",  size |-> SIZEOF_INT],
       [name |-> "speed_timer",  size |-> SIZEOF_INT],
       [name |-> "score",        size |-> SIZEOF_INT],
       [name |-> "highscore",    size |-> SIZEOF_INT],
       [name |-> "state",        size |-> SIZEOF_ENUM],
       [name |-> "move_counter", size |-> SIZEOF_INT],
       [name |-> "frame_count",  size |-> SIZEOF_ULONG] >>

\* The value of ptr after the first i copies, as an offset into data.
RECURSIVE PtrAfter(_)
PtrAfter(i) == IF i = 0 THEN 0 ELSE PtrAfter(i - 1) + Layout[i].size

\* One past the last byte a full pass of the copies touches.
CopiedEnd == PtrAfter(Len(Layout))

\* The copies that lie inside a buffer of the given size.
Inside(size) == { i \in 1 .. Len(Layout) : PtrAfter(i) <= size }

\* A size check that lets a buffer one int short through.
TooSmall_OneIntShort(size) == size < retro_serialize_size - SIZEOF_INT

\* The size check shared by the two entry points.
TooSmall(size) == size < retro_serialize_size

\* No save-state buffer yet.
NoBlob == [size |-> 0, mem |-> << >>]

NoCall == [op |-> "none", size |-> 0, ok |-> FALSE, end |-> 0]

\* retro_serialize into a buffer of the given size: the copies inside the
\* buffer fill it; the others are written past its end.
retro_serialize(g, size) ==
    [size |-> size,
     mem |-> [i \in Inside(size) |-> g[Layout[i].name]]]

\* What a copy from beyond the end of the buffer can deliver: the value the
\* matching write left there, or whatever replaced it since (here 0).
Beyond(i) == { saved[Layout[i].name], 0 }

\* retro_unserialize of the buffer b: the globals it can leave, one per
\* choice of the values read from beyond the buffer.
RECURSIVE Unpack(_, _, _)
Unpack(g, b, i) ==
    IF i > Len(Layout)
    THEN {g}
    ELSE IF i \in DOMAIN b.mem
         THEN Unpack([g EXCEPT ![Layout[i].name] = b.mem[i]], b, i + 1)
         ELSE UNION { Unpack([g EXCEPT ![Layout[i].name] = v], b, i + 1) :
                      v \in Beyond(i) }

retro_unserialize(g, b) == Unpack(g, b, 1)

(* ---------------- the state machine ------------------------------------ *)

\* The globals as the loader leaves them (static initialisers).
Loaded ==
    [ snake_x |-> << >>, snake_y |-> << >>, snake_length |-> 0,
      snake_dir |-> DIR_RIGHT, pending_dir |-> DIR_RIGHT,
      food_x |-> 0, food_y |-> 0,
      item_type |-> ITEM_NONE, item_x |-> 0, item_y |-> 0,
      phase_timer |-> 0, speed_timer |-> 0,
      particles |-> [i \in 1 .. MAX_PARTICLES |->
                        [active |-> FALSE, lifetime |-> 0]],
      obstacle |-> {}, obstacle_count |-> 0,
      score |-> 0, highscore |-> 0,
      state |-> STATE_TITLE, move_counter |-> BASE_MOVE_INTERVAL,
      frame_count |-> 0,
      prev_start |-> FALSE, prev_select |-> FALSE ]

\* retro_init: state = STATE_TITLE; game_reset().
retro_init == game_reset([Loaded EXCEPT !.state = STATE_TITLE])

Init ==
    /\ \E g \in retro_init :
        /\ snake_x = g.snake_x /\ snake_y = g.snake_y
        /\ snake_length = g.snake_length
        /\ snake_dir = g.snake_dir /\ pending_dir = g.pending_dir
        /\ food_x = g.food_x /\ food_y = g.food_y
        /\ item_type = g.item_type /\ item_x = g.item_x /\ item_y = g.item_y
        /\ phase_timer = g.phase_timer /\ speed_timer = g.speed_timer
        /\ particles = g.particles /\ obstacle = g.obstacle
        /\ obstacle_count = g.obstacle_count
        /\ score = g.score /\ highscore = g.highscore
        /\ state = g.state /\ move_counter = g.move_counter
        /\ frame_count = g.frame_count
        /\ prev_start = g.prev_start /\ prev_select = g.prev_select
    /\ blob = NoBlob
    /\ saved = Loaded
    /\ age = 0
    /\ call = NoCall

\* One call of retro_run with the button levels in.
Frame(in) ==
    \E g \in retro_run(Globals, in) :
        /\ g.score <= MaxScore
        /\ Becomes(g)
        /\ call' = NoCall

\* retro_run while playing.
RetroRun ==
    /\ \E in \in PlayInputs : Frame(in)
    /\ UNCHANGED << blob, saved, age >>

\* The record of a call of retro_reset.
ResetCall == [op |-> "reset", size |-> 0, ok |-> TRUE, end |-> 0]

\* retro_reset: game_reset().
RetroReset ==
    /\ \E g \in game_reset(Globals) : Becomes(g)
    /\ call' = ResetCall
    /\ UNCHANGED << blob, saved, age >>

\* Frames and the resets a Start edge makes.
Next == RetroRun

Spec == Init /\ [][Next]_vars

\* The button levels explored around resets: Start, Select, both, neither,
\* and Up, the one turn that takes the snake to a second fruit.
MenuInputs ==
    { Released,
      [Released EXCEPT !.start = TRUE], [Released EXCEPT !.select = TRUE],
      [Released EXCEPT !.start = TRUE, !.select = TRUE],
      [Released EXCEPT !.up = TRUE] }

\* retro_run with these button levels.
RetroRunMenu ==
    /\ \E in \in MenuInputs : Frame(in)
    /\ UNCHANGED << blob, saved, age >>

\* These frames, and the host's reset at any time.
NextReset == RetroRunMenu \/ RetroReset

SpecReset == Init /\ [][NextReset]_vars

\* The record of a second call of retro_init.
InitCall == [op |-> "init", size |-> 0, ok |-> TRUE, end |-> 0]

\* retro_deinit, then retro_init again in the same process: the statics keep
\* their values (retro_deinit only frees the frame buffer), state is set to
\* STATE_TITLE and game_reset() runs.
RetroInit ==
    /\ \E g \in game_reset([Globals EXCEPT !.state = STATE_TITLE]) : Becomes(g)
    /\ call' = InitCall
    /\ UNCHANGED << blob, saved, age >>

\* Frames, and the host's re-initialisation at any time.
NextInit == RetroRunMenu \/ RetroInit

SpecInit == Init /\ [][NextInit]_vars

\* The score up to which the longer games are explored: four fruits, so
\* that a second power-up can be taken while the first one's timer runs.
MaxLongScore == 40

\* retro_run in the longer games, which are played without pausing: Start
\* is pressed only in Title and GameOver.
RetroRunLong ==
    /\ \E in \in PlayInputs :
           /\ in.start => state \in {STATE_TITLE, STATE_GAMEOVER}
           /\ \E g \in retro_run(Globals, in) :
                  /\ g.score <= MaxLongScore
                  /\ Becomes(g)
                  /\ call' = NoCall
    /\ UNCHANGED << blob, saved, age >>

NextLong == RetroRunLong

SpecLong == Init /\ [][NextLong]_vars

\* The button levels explored around a save state.
SaveInputs ==
    { Released, [Released EXCEPT !.start = TRUE], [Released EXCEPT !.up = TRUE],
      [Released EXCEPT !.left = TRUE] }

\* The buffer sizes the host passes: one int short of retro_serialize_size(),
\* exactly that size, and room for every copy.
BufferSizes == { retro_serialize_size - SIZEOF_INT, retro_serialize_size, CopiedEnd }

\* A session ends with its first successful load.
Ended == call.op = "unserialize" /\ call.ok

\* retro_run between save-state calls.
RetroRunSave ==
    /\ ~Ended
    /\ age < MaxAge
    /\ \E in \in SaveInputs : Frame(in)
    /\ age' = age + 1
    /\ UNCHANGED << blob, saved >>

\* retro_serialize(data, size); a session saves once.
RetroSerialize ==
    /\ ~Ended
    /\ \E size \in BufferSizes :
        IF TooSmall(size)
        THEN /\ call' = [op |-> "serialize", size |-> size, ok |-> FALSE, end |-> 0]
             /\ UNCHANGED << core, blob, saved, age >>
        ELSE /\ blob = NoBlob
             /\ blob' = retro_serialize(Globals, size)
             /\ saved' = Globals
             /\ call' = [op |-> "serialize", size |-> size, ok |-> TRUE,
                         end |-> CopiedEnd]
             /\ UNCHANGED << core, age >>

\* retro_unserialize(data, size) on the buffer of the save, passed with its
\* size or with a size one int short.
RetroUnserialize ==
    /\ ~Ended
    /\ blob # NoBlob
    /\ \E size \in { blob.size, retro_serialize_size - SIZEOF_INT } :
        IF TooSmall(size)
        THEN /\ call' = [op |-> "unserialize", size |-> size, ok |-> FALSE,
                         end |-> 0]
             /\ UNCHANGED << core, blob, saved, age >>
        ELSE /\ \E g \in retro_unserialize(Globals, blob) : Becomes(g)
             /\ call' = [op |-> "unserialize", size |-> size, ok |-> TRUE,
                         end |-> CopiedEnd]
             /\ UNCHANGED << blob, saved, age >>

NextSave == RetroRunSave \/ RetroSerialize \/ RetroUnserialize

SpecSave == Init /\ [][NextSave]_vars

(* ---------------- properties -------------------------------------------- *)

\* No two indices of the snake hold the same cell.
Distinct(g) ==
    \A i, j \in 0 .. g.snake_length - 1 :
        i # j => SnakeCell(g, i) # SnakeCell(g, j)

\* No two indices hold the same cell, except that the last two may.
DistinctButLast(g) ==
    \A i, j \in 0 .. g.snake_length - 1 :
        (i < j /\ SnakeCell(g, i) = SnakeCell(g, j))
            => (i = g.snake_length - 2 /\ j = g.snake_length - 1)

\* The tick on m moves onto the fruit.
EatsFood(m) == ~ Fatal(m) /\ Candidate(m) = << m.food_x, m.food_y >>

\* C1: on a tick run while the phase timer is <= 0, a candidate head cell
\* that equals any cell of the snake (the tail cell included) ends the game
\* and leaves the snake where it was; so a phase-inactive tick that does not
\* end the game puts the head on a cell no index held before the tick.
C1_SelfCollisionEndsGame ==
    \A m \in TickStates :
        m.phase_timer <= 0 =>
            \A u \in update_snake(m) :
                /\ Candidate(m) \in SnakeCells(m) =>
                       /\ u.state = STATE_GAMEOVER
                       /\ u.snake_x = m.snake_x
                       /\ u.snake_y = m.snake_y
                       /\ u.snake_length = m.snake_length
                /\ u.state # STATE_GAMEOVER =>
                       SnakeCell(u, 0) \notin SnakeCells(m)

\* The game has just ended on a step onto the snake's own tail cell.
C1_Witness ==
    /\ state = STATE_GAMEOVER
    /\ phase_timer = 0
    /\ snake_length >= 4
    /\ StepCell(Globals, snake_dir) = SnakeCell(Globals, snake_length - 1)

\* C2 as stated: a phase-inactive tick on a snake without duplicate cells
\* leaves a snake without duplicate cells, also when the tick eats the fruit.
C2_NoDuplicateCells ==
    \A m \in TickStates :
        (m.phase_timer <= 0 /\ Distinct(m)) =>
            \A u \in update_snake(m) : Distinct(u)

\* C2 amended: a phase-inactive tick on a snake whose only possible
\* duplicate is its last two indices leaves such a snake again; it leaves no
\* duplicate at all unless it eats the fruit, and when it eats the fruit the
\* new last index repeats the cell before it.
C2_DuplicateOnlyAfterGrowth ==
    \A m \in TickStates :
        (m.phase_timer <= 0 /\ DistinctButLast(m)) =>
            \A u \in update_snake(m) :
                /\ DistinctButLast(u)
                /\ (u.state # STATE_GAMEOVER /\ ~ EatsFood(m)) => Distinct(u)
                /\ EatsFood(m) =>
                       SnakeCell(u, u.snake_length - 1)
                           = SnakeCell(u, u.snake_length - 2)

\* The fruit has been eaten and the move after it has not run yet: the last
\* two indices hold one cell.
C2_Witness ==
    /\ state = STATE_PLAY
    /\ phase_timer = 0
    /\ snake_length = 4
    /\ score = SCORE_INCREMENT
    /\ SnakeCell(Globals, 3) = SnakeCell(Globals, 2)

\* C3: the pending direction is never the reverse of the current direction,
\* before a frame and at every tick the frame can run; so no tick turns the
\* snake by 180 degrees.
C3_PendingNeverReverse ==
    /\ pending_dir # Opposite(snake_dir)
    /\ \A m \in TickStates : m.pending_dir # Opposite(m.snake_dir)

\* A turn to the left is queued behind a completed turn upwards.
C3_Witness ==
    /\ state = STATE_PLAY
    /\ snake_dir = DIR_UP
    /\ pending_dir = DIR_LEFT

\* C4 as stated: the food cell is never an occupied obstacle cell.
C4_FoodOffObstacles == << food_x, food_y >> \notin obstacle

\* C5 as stated: an active item never lies on the food cell.
C5_ItemOffFood ==
    item_type # ITEM_NONE => << item_x, item_y >> # << food_x, food_y >>

\* The packed fields, by name.
Packed == { Layout[i].name : i \in 1 .. Len(Layout) }

\* C6 as stated: a successful save-state call touches no byte beyond the
\* first retro_serialize_size() bytes of the buffer.
C6_WithinDeclaredSize == call.ok => call.end <= retro_serialize_size

\* C7 as stated: after a successful retro_unserialize of a buffer of exactly
\* retro_serialize_size() bytes, every packed field has the value it had
\* when retro_serialize filled the buffer.
C7_RoundTrip ==
    (Ended /\ blob.size = retro_serialize_size) =>
        \A n \in Packed : Globals[n] = saved[n]

\* C8: a save-state call with a size below retro_serialize_size() reports
\* failure, changes no global and writes no byte of the buffer.
C8_TooSmallChangesNothing ==
    [][ (call'.op # "none" /\ call'.size < retro_serialize_size) =>
            (~ call'.ok /\ UNCHANGED core /\ blob' = blob) ]_vars

\* retro_unserialize has just refused, in mid-game, a size one int short of
\* the buffer that holds a save.
C8_Witness ==
    /\ call.op = "unserialize"
    /\ call.size < retro_serialize_size
    /\ ~ call.ok
    /\ blob # NoBlob
    /\ state = STATE_PLAY
    /\ Globals # saved

\* C9 as stated: after a successful retro_unserialize, of a buffer that has
\* room for every copy, the pending direction and the obstacle grid are
\* what they were when the buffer was filled.
C9_BlobIsCompleteState ==
    (Ended /\ blob.size = CopiedEnd) =>
        (pending_dir = saved.pending_dir /\ obstacle = saved.obstacle)

StartReset == state \in {STATE_TITLE, STATE_GAMEOVER} /\ state' = STATE_PLAY

\* The step is a frame whose tick moved the head onto cell c.
HeadMovedOnto(c) ==
    /\ << snake_x'[1], snake_y'[1] >> = c
    /\ << snake_x[1], snake_y[1] >> # c

\* C11: an active item keeps its variant and its cell for as long as it is
\* active, also across a tick that eats the fruit; it becomes None only by
\* head contact or by a reset, and an item appears only on a tick that eats
\* the fruit.
C11_ItemKeptUntilTaken ==
    [][ /\ (item_type # ITEM_NONE /\ item_type' # ITEM_NONE) =>
               (item_type' = item_type /\ item_x' = item_x /\ item_y' = item_y)
        /\ (item_type # ITEM_NONE /\ item_type' = ITEM_NONE) =>
               (StartReset \/ HeadMovedOnto(<< item_x, item_y >>))
        /\ (item_type = ITEM_NONE /\ item_type' # ITEM_NONE) =>
               score' = score + SCORE_INCREMENT ]_vars

\* The coming tick can eat the fruit while an item lies on another cell.
C11_Witness ==
    \E m \in TickStates :
        /\ EatsFood(m)
        /\ m.item_type # ITEM_NONE
        /\ Candidate(m) # << m.item_x, m.item_y >>

\* The globals m with the snake arrays filled up to MAX_SNAKE_LENGTH by
\* repeating the last cell: a snake at the cap on the cells m's snake holds.
AtCap(m) ==
    LET n == m.snake_length
        pad(q) == q \o [i \in 1 .. MAX_SNAKE_LENGTH - n |-> q[n]]
    IN  [m EXCEPT !.snake_length = MAX_SNAKE_LENGTH,
                  !.snake_x = pad(m.snake_x),
                  !.snake_y = pad(m.snake_y)]

\* C12: the snake length is always between 3 and GRID_W * GRID_H and never
\* decreases from one frame to the next unless the frame resets the game; a
\* tick that eats the fruit with the length at the maximum leaves the length
\* unchanged and still adds the fixed increment to the score.
C12_LengthNeverShrinks ==
    [][ /\ snake_length' >= 3
        /\ snake_length' <= GRID_W * GRID_H
        /\ ~ StartReset => snake_length' >= snake_length
        /\ score' > score =>
               \A m \in TickStates :
                   EatsFood(m) =>
                       \A u \in update_snake(AtCap(m)) :
                           /\ u.snake_length = MAX_SNAKE_LENGTH
                           /\ u.score = m.score + SCORE_INCREMENT ]_vars

\* The snake has grown twice in one game.
C12_Witness ==
    /\ state = STATE_PLAY
    /\ snake_length = 5
    /\ score = 2 * SCORE_INCREMENT

\* C13: a tick that moves the head onto the food cell adds 1 to the length,
\* the new last index repeating the cell before it, adds exactly the fixed
\* increment to the score and moves the food to another cell; every other
\* frame leaves the score unchanged, except that a reset sets it to 0.
C13_FoodTick ==
    [][ /\ (~ StartReset /\ HeadMovedOnto(<< food_x, food_y >>)) =>
               /\ snake_length' = snake_length + 1
               /\ << snake_x'[snake_length'], snake_y'[snake_length'] >>
                      = << snake_x'[snake_length' - 1], snake_y'[snake_length' - 1] >>
               /\ << snake_x'[snake_length'], snake_y'[snake_length'] >>
                      = << snake_x[snake_length - 1], snake_y[snake_length - 1] >>
               /\ score' = score + SCORE_INCREMENT
               /\ << food_x', food_y' >> # << food_x, food_y >>
        /\ (~ StartReset /\ ~ HeadMovedOnto(<< food_x, food_y >>)) =>
               score' = score
        /\ StartReset => score' = 0 ]_vars

\* The first fruit of a game has just been eaten and the new fruit lies on
\* a cell away from the head.
C13_Witness ==
    /\ state = STATE_PLAY
    /\ score = SCORE_INCREMENT
    /\ snake_length = 4
    /\ move_counter = BASE_MOVE_INTERVAL
    /\ SnakeCell(Globals, 3) = SnakeCell(Globals, 2)
    /\ << food_x, food_y >> \notin SnakeCells(Globals)

\* The step is a frame with a rising edge of Start, of Select.
StartEdge == ~ prev_start /\ prev_start'
SelectEdge == ~ prev_select /\ prev_select'

\* The step is a frame whose Select edge is tested in the Title state.
SelectClears == state = STATE_TITLE /\ SelectEdge /\ ~ StartEdge

Max(a, b) == IF a >= b THEN a ELSE b

\* C14: the high score is never below the score; a step that is not a
\* Select-clear leaves it at the larger of its old value and the new score,
\* so it is raised exactly when the score exceeds it and a reset, which
\* sets the score to 0, leaves it unchanged.
C14_HighscoreIsMaximum ==
    [][ /\ highscore' >= score'
        /\ ~ SelectClears => highscore' = Max(highscore, score') ]_vars

\* A later game has scored without reaching the high score of an earlier one.
C14_Witness ==
    /\ state = STATE_PLAY
    /\ highscore = 2 * SCORE_INCREMENT
    /\ score = SCORE_INCREMENT

\* C15 as stated, for save-state loads: a successful retro_unserialize, of
\* a buffer that has room for every copy, never leaves a high score below
\* the one it found.
C15_LoadKeepsHighscore ==
    (blob # NoBlob /\ blob.size = CopiedEnd) =>
        \A g \in retro_unserialize(Globals, blob) : g.highscore >= highscore

\* The changes of state a Start edge makes.
StartTransitions ==
    { << STATE_TITLE, STATE_PLAY >>, << STATE_PLAY, STATE_PAUSE >>,
      << STATE_PAUSE, STATE_PLAY >>, << STATE_GAMEOVER, STATE_PLAY >> }

\* C16: the state changes only by a Start edge (Title -> Play and
\* GameOver -> Play with a reset, Play -> Pause, Pause -> Play) and by a
\* fatal tick (Play -> GameOver, also in the frame whose Start edge resumed
\* play); every Start edge changes it, a held Start does not, and
\* retro_reset leaves it as it is.
C16_StateTransitions ==
    [][ /\ (StartEdge /\ state' # STATE_GAMEOVER) =>
               << state, state' >> \in StartTransitions
        /\ (StartEdge /\ state \in {STATE_TITLE, STATE_GAMEOVER}) =>
               /\ state' = STATE_PLAY
               /\ snake_length' = 3 /\ score' = 0
               /\ move_counter' = BASE_MOVE_INTERVAL - 1
        /\ (~ StartEdge /\ state' # state) =>
               (state = STATE_PLAY /\ state' = STATE_GAMEOVER)
        /\ (state' = STATE_GAMEOVER /\ state # STATE_GAMEOVER) =>
               /\ (state = STATE_PLAY /\ ~ StartEdge)
                      \/ (state = STATE_PAUSE /\ StartEdge)
               /\ \E m \in TickStates : Fatal(m)
               /\ snake_x' = snake_x /\ snake_y' = snake_y
        /\ call' = ResetCall => state' = state ]_vars

\* The game is paused and Start is still held: the coming frame with Start
\* held must not resume it.
C16_Witness ==
    /\ state = STATE_PAUSE
    /\ prev_start
    /\ score = SCORE_INCREMENT

\* The sixteen levels of the four directional buttons.
DirInputs == { in \in Inputs : ~ in.start /\ ~ in.select }

\* The button of direction d is pressed in in.
Pressed(in, d) ==
    CASE d = DIR_UP -> in.up
      [] d = DIR_DOWN -> in.down
      [] d = DIR_LEFT -> in.left
      [] d = DIR_RIGHT -> in.right

\* Direction d is the only directional button pressed in in.
OnlyPressed(in, d) ==
    \A e \in {DIR_UP, DIR_DOWN, DIR_LEFT, DIR_RIGHT} : Pressed(in, e) <=> e = d

\* C17: the directional buttons write nothing but the pending direction;
\* they change it only in Play and only to a pressed direction that is the
\* reverse neither of the current nor of the pending direction, and a
\* single such press is taken; facing and heading right, Left is rejected.
C17_DirectionBuffered ==
    LET g == Globals
    IN  \A in \in DirInputs :
            LET h == OnDirection(g, in)
            IN  /\ [h EXCEPT !.pending_dir = pending_dir] = g
                /\ state # STATE_PLAY => h.pending_dir = pending_dir
                /\ h.pending_dir # pending_dir =>
                       /\ Pressed(in, h.pending_dir)
                       /\ h.pending_dir # Opposite(snake_dir)
                       /\ h.pending_dir # Opposite(pending_dir)
                /\ \A d \in {DIR_UP, DIR_DOWN, DIR_LEFT, DIR_RIGHT} :
                       (/\ state = STATE_PLAY
                        /\ OnlyPressed(in, d)
                        /\ d # Opposite(snake_dir)
                        /\ d # Opposite(pending_dir)) => h.pending_dir = d
                /\ (/\ snake_dir = DIR_RIGHT /\ pending_dir = DIR_RIGHT
                    /\ OnlyPressed(in, DIR_LEFT)) => h.pending_dir = DIR_RIGHT

\* The snake faces right with a turn upwards buffered: Left is the reverse
\* of the current direction, Down that of the pending one.
C17_Witness ==
    /\ state = STATE_PLAY
    /\ snake_dir = DIR_RIGHT
    /\ pending_dir = DIR_UP
    /\ score = SCORE_INCREMENT

\* The frame with buttons in has a rising edge of Select.
SelectRises(in) == in.select /\ ~ prev_select

\* The frame with buttons in has a rising edge of Start.
StartRises(in) == in.start /\ ~ prev_start

\* C18 as stated: a Select rising edge on a frame that begins in the Title
\* state leaves the high score at 0.
C18_SelectInTitleFrameClears ==
    \A in \in MenuInputs :
        (state = STATE_TITLE /\ SelectRises(in)) =>
            \A h \in handle_input(Globals, in) : h.highscore = 0

\* C18 amended: handle_input sets the high score to 0 exactly when Select
\* rises in a frame that begins in Title and has no rising edge of Start
\* (Start is handled first and leaves Title); it leaves the high score
\* unchanged in every other case: in Play, Pause and GameOver, and while
\* Select is held.
C18_SelectClearsInTitle ==
    \A in \in MenuInputs :
        \A h \in handle_input(Globals, in) :
            IF state = STATE_TITLE /\ SelectRises(in) /\ ~ StartRises(in)
            THEN h.highscore = 0
            ELSE h.highscore = highscore

\* The snake has eaten in an earlier game (a particle of it is left over, so
\* the high score was at least one increment), the core was initialised
\* again, and a rising edge of Select in Title has cleared the high score.
C18_Witness ==
    /\ state = STATE_TITLE
    /\ prev_select /\ ~ prev_start
    /\ highscore = 0
    /\ \E i \in 1 .. MAX_PARTICLES : particles[i].lifetime > 0

\* One decrement of a timer: if (timer > 0) timer--.
Dec(t) == IF t > 0 THEN t - 1 ELSE t

\* The frame of this step runs the Play branch of retro_run: it began in
\* Play without a rising edge of Start, or outside Play with one.
PlayBranch == (state = STATE_PLAY) # StartEdge

\* The frame of this step runs update_snake: the Play branch with the move
\* counter elapsed (a reset sets the counter to BASE_MOVE_INTERVAL).
Ticked == PlayBranch /\ ~ StartReset /\ move_counter - 1 <= 0

\* The tick of this step takes a power-up of variant t.
Took(t) == Ticked /\ item_type = t /\ item_type' = ITEM_NONE

\* C19 as stated: a timer is decremented by exactly 1 per tick while it is
\* > 0 (a pickup restarts it) and is not changed on a frame without a tick.
C19_TimersChangeOnlyOnTicks ==
    [][ /\ (Ticked /\ ~ Took(ITEM_PHASE)) => phase_timer' = Dec(phase_timer)
        /\ (Ticked /\ ~ Took(ITEM_SPEED)) => speed_timer' = Dec(speed_timer)
        /\ (~ Ticked /\ ~ StartReset) =>
               (phase_timer' = phase_timer /\ speed_timer' = speed_timer)
      ]_vars

\* C19 amended: each timer is decremented by exactly 1 on every frame that
\* runs in Play, with or without a tick, while it is > 0, before that
\* frame's tick; a pickup in the tick sets it to its duration, a reset to 0;
\* frames outside Play leave it unchanged.  The effect applies to a tick
\* exactly when the timer is > 0 after that frame's decrement: the move
\* interval is halved, and the walls wrap and the body is ignored (only an
\* obstacle ends the game); with the timer at 0 a wall, a body cell or an
\* obstacle ends it.
C19_TimersCountPlayFrames ==
    [][ /\ phase_timer' = IF StartReset THEN 0
                          ELSE IF ~ PlayBranch THEN phase_timer
                          ELSE IF Took(ITEM_PHASE) THEN PHASE_DURATION
                          ELSE Dec(phase_timer)
        /\ speed_timer' = IF StartReset THEN 0
                          ELSE IF ~ PlayBranch THEN speed_timer
                          ELSE IF Took(ITEM_SPEED) THEN SPEED_DURATION
                          ELSE Dec(speed_timer)
        /\ Ticked =>
               /\ move_counter' = IF Dec(speed_timer) > 0
                                  THEN BASE_MOVE_INTERVAL \div 2
                                  ELSE BASE_MOVE_INTERVAL
               /\ LET c == StepCell(Globals, pending_dir')
                  IN  IF Dec(phase_timer) > 0
                      THEN /\ (state' = STATE_GAMEOVER) = (WrapCell(c) \in obstacle)
                           /\ state' = STATE_PLAY =>
                                  << snake_x'[1], snake_y'[1] >> = WrapCell(c)
                      ELSE (state' = STATE_GAMEOVER) =
                               (\/ OutOfGrid(c)
                                \/ c \in SnakeCells(Globals)
                                \/ c \in obstacle)
      ]_vars

\* A frame without a tick has just counted the phase timer down from its
\* full duration.
C19_Witness ==
    /\ state = STATE_PLAY
    /\ phase_timer = PHASE_DURATION - 1
    /\ move_counter = BASE_MOVE_INTERVAL - 1

\* The tick of this step enforces the wall and the self-collision check:
\* the game ends exactly when the stepped cell, not wrapped, is outside the
\* grid, a cell of the snake or an obstacle, and otherwise it is the new head.
Enforced ==
    LET c == StepCell(Globals, pending_dir')
    IN  /\ (state' = STATE_GAMEOVER) =
               (\/ OutOfGrid(c)
                \/ c \in SnakeCells(Globals)
                \/ c \in obstacle)
        /\ state' = STATE_PLAY => << snake_x'[1], snake_y'[1] >> = c

\* C20 as stated: a tick whose frame begins with the phase timer at 1 leaves
\* it at 0, the timer then stays at 0 up to the following tick, and a tick
\* that begins with the timer at 0 enforces both checks.
C20_PhaseEndsAfterTick ==
    [][ /\ (Ticked /\ phase_timer = 1) => phase_timer' = 0
        /\ (~ Ticked /\ phase_timer = 0) => phase_timer' = 0
        /\ (Ticked /\ phase_timer = 0) => Enforced
      ]_vars

\* C20 amended: a tick whose frame begins with the phase timer at 1 already
\* enforces both checks (the countdown precedes update_snake) and leaves the
\* timer at 0, unless that tick takes a Phase power-up, which restarts the
\* timer at PHASE_DURATION; a timer at 0 stays at 0 until a tick takes a
\* Phase power-up, and a tick that begins with it at 0 enforces both checks.
C20_PhaseEndsUnlessRestarted ==
    [][ /\ (Ticked /\ phase_timer = 1) =>
               /\ Enforced
               /\ phase_timer' = IF Took(ITEM_PHASE) THEN PHASE_DURATION ELSE 0
        /\ (phase_timer = 0 /\ ~ Took(ITEM_PHASE)) => phase_timer' = 0
        /\ (Ticked /\ phase_timer = 0) => Enforced
      ]_vars

\* The phase timer is 1, the coming frame ticks, and its tick takes a Phase
\* power-up, which restarts the timer.
C20_Witness ==
    /\ phase_timer = 1
    /\ \E m \in TickStates :
           /\ m.phase_timer = 0
           /\ m.item_type = ITEM_PHASE
           /\ Candidate(m) = << m.item_x, m.item_y >>
           /\ \E u \in update_snake(m) :
                  /\ u.phase_timer = PHASE_DURATION
                  /\ u.score <= MaxLongScore

\* C21: while the phase timer is > 0 a tick passes through the walls and
\* through the snake itself: a step that leaves the grid wraps to the
\* opposite edge and the game continues, a step onto a cell of the snake
\* does not end the game, and neither does a step into the wall of the
\* playing field, the outer ring that spawn_obstacles occupies.
C21_PhasingPassesWalls ==
    \A m \in TickStates :
        m.phase_timer > 0 =>
            LET c == StepCell(m, m.pending_dir)
            IN  \A u \in update_snake(m) :
                    /\ OutOfGrid(c) =>
                           /\ u.state = STATE_PLAY
                           /\ SnakeCell(u, 0) = WrapCell(c)
                    /\ c \in SnakeCells(m) => u.state = STATE_PLAY
                    /\ c \in Border => u.state = STATE_PLAY

\* The four directions.
Directions == {DIR_UP, DIR_DOWN, DIR_LEFT, DIR_RIGHT}

\* The step from cell c in direction d, as update_snake computes it from the
\* head.
StepFrom(c, d) == StepCell([snake_x |-> << c[1] >>, snake_y |-> << c[2] >>], d)

\* The wraparound of a step that crosses a grid edge changes only the
\* coordinate of the crossed axis, to the opposite edge, and leaves a step
\* inside the grid as it is.
WrapLaw ==
    \A c \in Cells : \A d \in Directions :
        LET s == StepFrom(c, d)
            w == WrapCell(s)
        IN  /\ w \in Cells
            /\ ~ OutOfGrid(s) => w = s
            /\ s[1] < 0 => w = << GRID_W - 1, c[2] >>
            /\ s[1] >= GRID_W => w = << 0, c[2] >>
            /\ s[2] < 0 => w = << c[1], GRID_H - 1 >>
            /\ s[2] >= GRID_H => w = << c[1], 0 >>

\* C22: every snake cell lies in [0,GRID_W) x [0,GRID_H), before and after
\* every tick, the candidate of a phase-active tick included; and the
\* wraparound obeys WrapLaw.
C22_SnakeInGrid ==
    /\ \A i \in 1 .. snake_length : << snake_x[i], snake_y[i] >> \in Cells
    /\ \A m \in TickStates :
           /\ m.phase_timer > 0 => Candidate(m) \in Cells
           /\ \A u \in update_snake(m) : SnakeCells(u) \subseteq Cells
    /\ WrapLaw

\* A tick has just run with the phase timer active.
C22_Witness ==
    /\ state = STATE_PLAY
    /\ phase_timer = PHASE_DURATION - BASE_MOVE_INTERVAL
    /\ move_counter = BASE_MOVE_INTERVAL
    /\ speed_timer = 0

\* The head cell game_reset sets, and the cell to its right.
ResetHead == << GRID_W \div 2, GRID_H \div 2 >>
RightOfResetHead == << GRID_W \div 2 + 1, GRID_H \div 2 >>

\* The snake is as game_reset leaves it: three cells from ResetHead to the
\* left, facing right, and the frame of this step leaves the pending
\* direction at Right and runs a tick.
FirstTick ==
    /\ snake_length = 3
    /\ snake_x = << ResetHead[1], ResetHead[1] - 1, ResetHead[1] - 2 >>
    /\ snake_y = << ResetHead[2], ResetHead[2], ResetHead[2] >>
    /\ snake_dir = DIR_RIGHT
    /\ pending_dir' = DIR_RIGHT
    /\ phase_timer = 0
    /\ Ticked

\* The snake after the plain first tick: every cell one to the right.
Advanced ==
    /\ snake_length' = 3
    /\ snake_x' = << ResetHead[1] + 1, ResetHead[1], ResetHead[1] - 1 >>
    /\ snake_y' = snake_y
    /\ state' = STATE_PLAY

\* C23 as stated: the first tick after a reset, with no directional input,
\* moves the snake one cell to the right, keeps the length at 3 and the
\* state at Play, whatever the reset has drawn.
C23_FirstTickMovesRight == [][ FirstTick => Advanced ]_vars

\* C23 amended: the first tick moves the snake one cell to the right and
\* keeps length 3 and Play, unless the reset has put the fruit or an
\* obstacle on the cell to the right of the head: with an obstacle there the
\* tick ends the game and leaves the snake, with the fruit there the snake
\* moves and grows to 4 with its last cell doubled.
C23_FirstTickByRightCell ==
    [][ FirstTick =>
          IF RightOfResetHead \in obstacle
          THEN /\ state' = STATE_GAMEOVER
               /\ snake_x' = snake_x /\ snake_y' = snake_y
               /\ snake_length' = 3
          ELSE IF << food_x, food_y >> = RightOfResetHead
          THEN /\ state' = STATE_PLAY
               /\ snake_length' = 4
               /\ snake_x' = << ResetHead[1] + 1, ResetHead[1],
                                ResetHead[1] - 1, ResetHead[1] - 1 >>
               /\ snake_y' = << ResetHead[2], ResetHead[2],
                                ResetHead[2], ResetHead[2] >>
               /\ score' = score + SCORE_INCREMENT
          ELSE Advanced /\ score' = score
      ]_vars

\* The first tick has run with nothing on the cell to the right: the snake
\* has advanced by one and no fruit has been eaten since the reset.
C23_Witness ==
    /\ state = STATE_PLAY
    /\ snake_length = 3
    /\ snake_x = << ResetHead[1] + 1, ResetHead[1], ResetHead[1] - 1 >>
    /\ snake_y = << ResetHead[2], ResetHead[2], ResetHead[2] >>
    /\ snake_dir = DIR_RIGHT
    /\ score = 0
    /\ move_counter = BASE_MOVE_INTERVAL

\* The cells the snake holds after the step.
SnakeCellsAfter == { << snake_x'[i], snake_y'[i] >> : i \in 1 .. snake_length' }

\* C24: the cell random_free_cell returns lies in the grid and, when it
\* returns, is held by no snake index, is no occupied obstacle and is not
\* the cell of the active item.  For the fruit placed by a tick that is the
\* snake as moved and grown, the obstacle grid and the item as it was; for
\* an item it is the same snake and grid and the cell the item variables
\* still held (the type is set before the draw); for the fruit of a reset
\* it is the reset snake, with the grid cleared and no item.
C24_FreeCellAtReturn ==
    [][ /\ score' > score =>
               /\ << food_x', food_y' >> \in Cells \ (SnakeCellsAfter \cup obstacle)
               /\ item_type # ITEM_NONE =>
                      << food_x', food_y' >> # << item_x, item_y >>
        /\ (item_type = ITEM_NONE /\ item_type' # ITEM_NONE) =>
               /\ << item_x', item_y' >> \in Cells \ (SnakeCellsAfter \cup obstacle)
               /\ << item_x', item_y' >> # << item_x, item_y >>
        /\ StartReset => << food_x', food_y' >> \in Cells \ SnakeCellsAfter
      ]_vars

\* A tick has placed a fruit and an item, and a later one a second fruit
\* while the item was active.
C24_Witness ==
    /\ state = STATE_PLAY
    /\ score = 2 * SCORE_INCREMENT
    /\ item_type # ITEM_NONE
    /\ << food_x, food_y >> # << item_x, item_y >>

\* Some cell of the grid passes the test of random_free_cell's loop.
HasFreeCell(g) == \E c \in Cells : IsFree(g, c)

\* The globals on which the fruit branch of tick state m calls spawn_food:
\* the snake moved and grown (score and particles are not read by the loop).
FoodCall(m) ==
    Grow(MoveBody([m EXCEPT !.snake_dir = m.pending_dir], Candidate(m)))

\* The globals on which spawn_item then calls random_free_cell when no item
\* is active and the probability gate passes: the type is already set.
ItemCalls(m) ==
    { [f EXCEPT !.item_type = ITEM_PHASE] :
        f \in { k \in spawn_food(FoodCall(m)) : k.item_type = ITEM_NONE } }

\* Tick state m eats the fruit.
Eats(m) == ~Fatal(m) /\ Candidate(m) = << m.food_x, m.food_y >>

\* C25: whenever a frame invokes random free-cell selection at least one
\* acceptable cell exists, so the resampling loop returns: on every tick
\* that eats the fruit, for the call of spawn_food and for the call
\* spawn_item makes when its gate passes.
C25_AcceptableCellExists ==
    \A m \in TickStates :
        Eats(m) =>
            /\ HasFreeCell(FoodCall(m))
            /\ \A t \in ItemCalls(m) : HasFreeCell(t)

\* The obstacle grid as a reset builds it: the outer ring and num_obstacles
\* further cells, none the reset head cell or the fruit's, all counted.
GridAsBuilt ==
    /\ Border \subseteq obstacle
    /\ obstacle \subseteq Cells
    /\ Cardinality(obstacle \ Border) = num_obstacles
    /\ ResetHead \notin obstacle
    /\ << food_x, food_y >> \notin obstacle \ Border
    /\ obstacle_count = Cardinality(obstacle)

\* C26: after every reset and in every state until the next one the
\* occupied cells are the outer ring and exactly GRID_W * GRID_H / 100
\* distinct interior cells, none of them the reset head cell or the fruit's
\* cell, and obstacle_count is their number; a step that is not a reset
\* (a frame without a Start transition into Play) leaves the grid as it is.
C26_ObstacleGrid ==
    /\ [] GridAsBuilt
    /\ [][ (StartReset \/ call' = ResetCall)
            \/ UNCHANGED << obstacle, obstacle_count >> ]_vars

\* A game was played and scored, a reset built a new grid, and frames have
\* run on it in Play.
C26_Witness ==
    /\ state = STATE_PLAY
    /\ highscore > 0
    /\ score = 0
    /\ move_counter < BASE_MOVE_INTERVAL
    /\ Cardinality(obstacle \ Border) = num_obstacles

\* The step shows that update_snake ran: the game ended or the head moved.
TickSeen ==
    \/ state # STATE_GAMEOVER /\ state' = STATE_GAMEOVER
    \/ << snake_x'[1], snake_y'[1] >> # << snake_x[1], snake_y[1] >>

\* The step left the snake, the fruit and the score as they were.
NoTickSeen ==
    /\ state' = STATE_PLAY
    /\ UNCHANGED << snake_x, snake_y, snake_length, snake_dir,
                    food_x, food_y, score >>

\* C27 as stated: each time the move counter reaches zero it is reset by
\* the speed timer as it is at that moment, also on the tick that picks the
\* Speed item up: to half the base interval if the timer is > 0, else to the
\* base interval.
C27_IntervalIncludesPickup ==
    [][ Ticked => move_counter' = IF speed_timer' > 0
                                  THEN BASE_MOVE_INTERVAL \div 2
                                  ELSE BASE_MOVE_INTERVAL ]_vars

\* C27 amended: every frame that runs in Play decrements the move counter
\* by 1, and a tick occurs exactly on the frames on which it reaches zero;
\* it is then reset to the base interval, or to half of it if the speed
\* timer is > 0 after the frame's decrement and before the tick, so the
\* tick that picks the Speed item up is reset by the timer as it was before
\* the pickup.  A frame outside Play leaves the counter, and a frame whose
\* Start transition resets the game counts it down once from the base.
C27_MoveCounterCadence ==
    [][ IF StartReset
        THEN move_counter' = BASE_MOVE_INTERVAL - 1
        ELSE IF ~ PlayBranch
        THEN move_counter' = move_counter /\ ~ TickSeen
        ELSE IF move_counter - 1 <= 0
        THEN /\ TickSeen
             /\ snake_dir' = pending_dir'
             /\ move_counter' = IF Dec(speed_timer) > 0
                                 THEN BASE_MOVE_INTERVAL \div 2
                                 ELSE BASE_MOVE_INTERVAL
        ELSE /\ NoTickSeen
             /\ move_counter' = move_counter - 1
      ]_vars

\* A tick has just picked the Speed item up with no Speed effect running:
\* the timer is at its duration and the counter at the base interval.
C27_Witness ==
    /\ state = STATE_PLAY
    /\ speed_timer = SPEED_DURATION
    /\ item_type = ITEM_NONE
    /\ move_counter = BASE_MOVE_INTERVAL

\* audio_batch_cb(silence, 800): the stereo frames delivered per call, and
\* static int16_t silence[1600]: the samples of the buffer.
AUDIO_FRAMES == 800
SILENCE_SAMPLES == 1600

\* memset(silence, 0, sizeof(silence))
silence == [i \in 1 .. SILENCE_SAMPLES |-> 0]

\* The sample values the buffer holds.
SilenceValues == { silence[i] : i \in DOMAIN silence }

\* One statement of retro_run, with the audio frames and the sample values
\* it hands to the host (none but for audio_batch_cb).
Step(name) == [op |-> name, frames |-> 0, data |-> {}]

\* A frame that delivers the audio only while the game is in Play.
RunSteps_AudioInPlay(h) ==
    << Step("handle_input") >>
    \o (IF h.state = STATE_PLAY
        THEN (IF Countdown(h).move_counter <= 0
              THEN << Step("update_snake") >>
              ELSE << >>)
             \o << Step("update_particles") >>
        ELSE << >>)
    \o << Step("draw_frame"), Step("video_cb") >>
    \o (IF h.state = STATE_PLAY
        THEN << [op |-> "audio_batch_cb", frames |-> AUDIO_FRAMES, data |-> SilenceValues] >>
        ELSE << >>)
    \o << Step("frame_count++") >>

\* The calls and the increment retro_run executes, in order, once
\* handle_input has left the globals h.
RunSteps(h) ==
    << Step("handle_input") >>
    \o (IF h.state = STATE_PLAY
        THEN (IF Countdown(h).move_counter <= 0
              THEN << Step("update_snake") >>
              ELSE << >>)
             \o << Step("update_particles") >>
        ELSE << >>)
    \o << Step("draw_frame"), Step("video_cb"),
          [op |-> "audio_batch_cb", frames |-> AUDIO_FRAMES, data |-> SilenceValues],
          Step("frame_count++") >>

\* The positions of the statement called name in the sequence s.
At(s, name) == { i \in DOMAIN s : s[i].op = name }

\* The order of one frame: input handling first; one tick exactly when the
\* state after input handling is Play and the countdown has elapsed, else
\* none; one particle update exactly in Play, after the tick; then one render
\* pass, one video delivery, one audio delivery of AUDIO_FRAMES frames of
\* zero samples, and the increment of the frame counter last.
FrameOrder(h) ==
    LET s == RunSteps(h)
        n == Len(s)
        ticks == At(s, "update_snake")
        updates == At(s, "update_particles")
    IN  /\ At(s, "handle_input") = {1}
        /\ Cardinality(ticks) =
               IF h.state = STATE_PLAY /\ h.move_counter - 1 <= 0 THEN 1 ELSE 0
        /\ Cardinality(updates) = IF h.state = STATE_PLAY THEN 1 ELSE 0
        /\ \A i \in ticks : \A j \in updates : i < j
        /\ \A j \in updates : j < n - 3
        /\ At(s, "draw_frame") = {n - 3}
        /\ At(s, "video_cb") = {n - 2}
        /\ At(s, "audio_batch_cb") = {n - 1}
        /\ s[n - 1].frames = 800
        /\ s[n - 1].data = {0}
        /\ Len(silence) = 2 * s[n - 1].frames
        /\ At(s, "frame_count++") = {n}

\* The lifetimes a particle spawned by the tick shows at the end of its
\* frame, when update_particles has run after the tick.
SpawnedThenAged == { l - 1 : l \in ParticleLifetimes }

\* C28: every call of retro_run performs, in this order, input handling,
\* at most one snake tick (only with the state in Play after input handling
\* and the move countdown elapsed), the particle update (only in Play),
\* exactly one render pass, one video delivery, one audio delivery of 800
\* silent stereo frames, and then the increment of the frame counter, in
\* every state.  In the globals: the counter grows by one on every frame
\* (from 0 when the frame reset the game), a tick moves the head one cell
\* in the direction this frame's input left pending, a particle the tick
\* spawned has already aged once, and outside Play no particle changes.
C28_FrameOrder ==
    /\ [] (LET g == Globals
           IN  \A in \in PlayInputs : \A h \in handle_input(g, in) : FrameOrder(h))
    /\ [][ /\ frame_count' = IF StartReset
                              THEN 1 % ULONG_MODULUS
                              ELSE (frame_count + 1) % ULONG_MODULUS
           /\ ~ StartReset =>
                  /\ TickSeen => Ticked
                  /\ (TickSeen /\ state' = STATE_PLAY) =>
                         /\ snake_dir' = pending_dir'
                         /\ << snake_x'[1], snake_y'[1] >> =
                                WrapCell(StepCell(Globals, pending_dir'))
                  /\ \A i \in 1 .. MAX_PARTICLES :
                         IF ~ PlayBranch
                         THEN particles'[i] = particles[i]
                         ELSE IF particles[i].active
                         THEN particles'[i] =
                                  [active |-> particles[i].lifetime - 1 > 0,
                                   lifetime |-> particles[i].lifetime - 1]
                         ELSE \/ particles'[i] = particles[i]
                              \/ /\ Ticked
                                 /\ particles'[i].lifetime \in SpawnedThenAged
                                 /\ particles'[i].active = (particles'[i].lifetime > 0)
         ]_vars

\* A tick has eaten the fruit and the particle it spawned has aged within
\* the same frame.
C28_Witness ==
    /\ state = STATE_PLAY
    /\ score = SCORE_INCREMENT
    /\ move_counter = BASE_MOVE_INTERVAL
    /\ \E i \in 1 .. MAX_PARTICLES :
           particles[i].active /\ particles[i].lifetime \in SpawnedThenAged

\* The globals h are as game_reset leaves them: the snake on its three
\* cells heading Right, score and timers 0, no item, the move counter at the
\* base interval, every particle inactive, the grid rebuilt and a fruit on a
\* cell of the grid off the snake.
IsReset(h) ==
    /\ h.snake_length = 3
    /\ h.snake_x = << GRID_W \div 2, GRID_W \div 2 - 1, GRID_W \div 2 - 2 >>
    /\ h.snake_y = << GRID_H \div 2, GRID_H \div 2, GRID_H \div 2 >>
    /\ h.snake_dir = DIR_RIGHT /\ h.pending_dir = DIR_RIGHT
    /\ h.score = 0
    /\ h.phase_timer = 0 /\ h.speed_timer = 0
    /\ h.item_type = ITEM_NONE
    /\ h.move_counter = BASE_MOVE_INTERVAL
    /\ \A i \in 1 .. MAX_PARTICLES : ~ h.particles[i].active
    /\ Border \subseteq h.obstacle
    /\ Cardinality(h.obstacle \ Border) = num_obstacles
    /\ h.obstacle_count = Cardinality(h.obstacle)
    /\ << h.food_x, h.food_y >> \in Cells \ SnakeCells(h)
    /\ << h.food_x, h.food_y >> \notin h.obstacle \ Border

\* C29: a reset - on first load, on retro_reset and on the Start
\* transitions from Title and from GameOver into Play - sets the snake to
\* its 3 cells from (GRID_W/2, GRID_H/2) leftwards, direction and pending
\* direction to Right, score and both timers to 0, the item to None, the
\* move counter to the base interval and all particles to inactive,
\* rebuilds the obstacle grid and draws a fruit; it leaves the high score
\* unchanged.  The rest of a Start frame then counts the move counter down
\* once without a tick.
C29_Reset ==
    /\ IsReset(Globals) /\ state = STATE_TITLE
    /\ [] (call = ResetCall => IsReset(Globals))
    /\ [][ /\ call' = ResetCall => (highscore' = highscore /\ state' = state)
           /\ StartReset =>
                  /\ IsReset([Globals' EXCEPT !.move_counter = @ + 1])
                  /\ highscore' = highscore
         ]_vars

\* retro_reset was called in a game that had scored and whose particle was
\* still alive: the score is gone, the high score kept, the particle off.
C29_Witness ==
    /\ call = ResetCall
    /\ state = STATE_PLAY
    /\ score = 0
    /\ highscore > 0
    /\ \E i \in 1 .. MAX_PARTICLES :
           ~ particles[i].active /\ particles[i].lifetime > 0

\* The slots of pool ps that are active.
ActiveSlots(ps) == { i \in DOMAIN ps : ps[i].active }

\* The globals on which tick state m calls spawn_particles: in the fruit
\* branch the snake moved and grown, and in the item branch every outcome
\* the fruit branch left.
SpawnCalls(m) ==
    IF Fatal(m)
    THEN {}
    ELSE LET c == Candidate(m)
             b == MoveBody([m EXCEPT !.snake_dir = m.pending_dir], c)
         IN  (IF Eats(m) THEN {Grow(b)} ELSE {})
             \cup { e \in EatFood(b, c) :
                      e.item_type # ITEM_NONE /\ c = << e.item_x, e.item_y >> }

MaxLifetime == PARTICLE_LIFE_BASE + PARTICLE_LIFE_SPAN - 1

\* A pool whose every slot holds particle p.
PoolOf(p) == [particles |-> [i \in 1 .. MAX_PARTICLES |-> p]]

\* update_particles on one particle, for every lifetime up to the longest
\* and both activity flags: an active one loses exactly 1 and is active
\* afterwards exactly when the lifetime left is above 0; an inactive one is
\* returned as it was.
AgeLaw ==
    \A l \in 0 .. MaxLifetime : \A i \in 1 .. MAX_PARTICLES :
        /\ update_particles(PoolOf([active |-> TRUE, lifetime |-> l])).particles[i]
               = [active |-> l - 1 > 0, lifetime |-> l - 1]
        /\ update_particles(PoolOf([active |-> FALSE, lifetime |-> l])).particles[i]
               = [active |-> FALSE, lifetime |-> l]

\* C31: a particle is activated with a lifetime between the base and the
\* base plus the span less one ([30,59]); on every frame of the Play branch
\* the lifetime of each active particle decreases by exactly 1 and the
\* particle is inactive afterwards exactly when it has reached 0, so an
\* active particle always has between 1 and the longest lifetime less one
\* frames left and is inactive at most that many Play frames after its
\* spawn; the update leaves an inactive particle as it is.
C31_ParticleLifetime ==
    /\ [] (\A i \in 1 .. MAX_PARTICLES :
              /\ particles[i].lifetime \in 0 .. MaxLifetime - 1
              /\ particles[i].active => particles[i].lifetime >= 1)
    /\ [] AgeLaw
    /\ [][ (PlayBranch /\ ~ StartReset) =>
              \A i \in 1 .. MAX_PARTICLES :
                  IF particles[i].active
                  THEN /\ particles'[i].lifetime = particles[i].lifetime - 1
                       /\ particles'[i].active = (particles'[i].lifetime > 0)
                  ELSE \/ particles'[i] = particles[i]
                       \/ /\ Ticked
                          /\ particles'[i].lifetime + 1 \in ParticleLifetimes
                          /\ particles'[i].active = (particles'[i].lifetime > 0)
         ]_vars

\* A particle was spawned in a game and has aged out.
C31_Witness ==
    /\ state = STATE_PLAY
    /\ score > 0
    /\ \E i \in 1 .. MAX_PARTICLES :
           ~ particles[i].active /\ particles[i].lifetime = 0

\* The tick of this step meets a collision: with the phase timer above 0
\* after the frame's decrement an obstacle on the wrapped cell, and without
\* it a cell outside the grid, a cell of the snake or an obstacle.
Collides ==
    LET c == StepCell(Globals, pending_dir')
    IN  IF Dec(phase_timer) > 0
        THEN WrapCell(c) \in obstacle
        ELSE OutOfGrid(c) \/ c \in SnakeCells(Globals) \/ c \in obstacle

\* C32: a tick that meets a wall, self or obstacle collision ends in
\* GameOver, a tick ends in GameOver only so, and it leaves the snake's
\* cells and length, the score, the high score, the fruit's cell and the
\* item exactly as they were.
C32_FatalTickKeepsGame ==
    [][ Ticked =>
          /\ Collides = (state' = STATE_GAMEOVER)
          /\ state' = STATE_GAMEOVER =>
                 UNCHANGED << snake_x, snake_y, snake_length, score, highscore,
                              food_x, food_y, item_type, item_x, item_y >>
      ]_vars

\* A game that had scored and had an item on the grid has ended.
C32_Witness ==
    /\ state = STATE_GAMEOVER
    /\ score > 0
    /\ item_type # ITEM_NONE
    /\ move_counter = BASE_MOVE_INTERVAL

\* The values of the phase timer a tick is tried with: none, the one it
\* has, and a full one.
PhaseCases(m) == {0, m.phase_timer, PHASE_DURATION}

\* C33: if the candidate head cell, after the wraparound of a phasing tick,
\* is an occupied obstacle cell, the tick ends in GameOver and the snake is
\* not moved, whether or not the phase timer is above 0: on every tick
\* state the games reach, with the timer it has, with none and with a full
\* one.
C33_ObstacleAlwaysFatal ==
    \A m \in TickStates : \A p \in PhaseCases(m) :
        LET n == [m EXCEPT !.phase_timer = p]
        IN  Candidate(n) \in n.obstacle =>
                \A u \in update_snake(n) :
                    /\ u.state = STATE_GAMEOVER
                    /\ u.snake_x = n.snake_x
                    /\ u.snake_y = n.snake_y
                    /\ u.snake_length = n.snake_length

\* A phasing snake has run into an obstacle: the game is over with the
\* phase timer still running.
C33_Witness ==
    /\ state = STATE_GAMEOVER
    /\ phase_timer > 0
    /\ \E d \in Directions : StepCell(Globals, d) \in obstacle

\* C34: a frame that is in Title, Pause or GameOver after input handling
\* leaves the snake, both directions, the fruit, the item, both timers, the
\* move counter, the score, the obstacle grid and every particle as they
\* were and stays out of Play; the frame counter advances by one, and the
\* high score changes only when the frame is in Title and Select rises,
\* which clears it.
C34_FrozenOutsidePlay ==
    [][ (call' = NoCall /\ ~ PlayBranch) =>
          /\ UNCHANGED << snake_x, snake_y, snake_length, snake_dir, pending_dir,
                          food_x, food_y, item_type, item_x, item_y,
                          phase_timer, speed_timer, move_counter, score,
                          obstacle, obstacle_count, particles >>
          /\ state' \in {STATE_TITLE, STATE_PAUSE, STATE_GAMEOVER}
          /\ frame_count' = (frame_count + 1) % ULONG_MODULUS
          /\ highscore' = IF state = STATE_TITLE /\ SelectEdge
                          THEN 0
                          ELSE highscore
      ]_vars

\* The game has been paused for more than one frame with a timer running
\* and a particle still active.
C34_Witness ==
    /\ state = STATE_PAUSE
    /\ ~ prev_start
    /\ phase_timer > 0 \/ speed_timer > 0
    /\ \E i \in 1 .. MAX_PARTICLES : particles[i].active

\* The head cell.
HeadCell == << snake_x[1], snake_y[1] >>

\* C35: in every state reached through frames and resets the head is on no
\* occupied obstacle cell; hence it is never on the outer ring, the cell one
\* step from it in any direction is inside the grid, and no tick takes the
\* out-of-grid death or the wraparound of update_snake.
C35_HeadOffObstacles ==
    /\ HeadCell \notin obstacle
    /\ Border \subseteq obstacle
    /\ HeadCell \in Cells \ Border
    /\ \A d \in Directions : ~ OutOfGrid(StepCell(Globals, d))
    /\ \A d \in Directions : WrapCell(StepCell(Globals, d)) = StepCell(Globals, d)

\* A phasing snake in play stands next to the right wall.
C35_Witness ==
    /\ state = STATE_PLAY
    /\ phase_timer > 0
    /\ snake_x[1] = GRID_W - 2
    /\ snake_dir = DIR_RIGHT

\* The ticks a snake heading Right from the reset cell has before the ring.
MaxCoastTicks == GRID_W - 1 - GRID_W \div 2

\* The globals after n more frames with every button released, from any of
\* the globals in S.
RECURSIVE Coast(_, _)
Coast(S, n) ==
    IF n = 0
    THEN S
    ELSE Coast(UNION { retro_run(g, Released) : g \in S }, n - 1)

\* The game is in Play as a reset left it, but for the frames counted off
\* the move counter since.
AfterReset ==
    /\ state = STATE_PLAY
    /\ IsReset([Globals EXCEPT !.move_counter = BASE_MOVE_INTERVAL])

C37_PendingNotOpposite ==
    (call.op = "unserialize" /\ call.ok) => pending_dir # Opposite(snake_dir)

\* C38: once the state has left Title no frame, whatever its buttons, and
\* no reset returns it to Title; so from the frame of the first Start press
\* on Select no longer clears the high score, which never decreases again.
C38_TitleNeverReturns ==
    [][ /\ state # STATE_TITLE =>
              /\ state' # STATE_TITLE
              /\ highscore' >= highscore
        /\ (state = STATE_TITLE /\ state' # STATE_TITLE) =>
              highscore' = highscore
      ]_vars

\* A game has scored and ended in a reset, and Select is held outside
\* Title with the high score still in place.
C38_Witness ==
    /\ state # STATE_TITLE
    /\ highscore > 0
    /\ score = 0
    /\ prev_select

====
